---- MODULE Spec2Model ----
(***************************************************************************)
(* A model of the quad store, the row loader and the declarative resolver  *)
(* of the ARGA transformer (src/src/dataset.rs, src/src/resolver.rs,       *)
(* src/src/rdf.rs), and of the CSV triples reader (src/src/readers.rs).    *)
(*                                                                         *)
(* The store is a set of quads.  A term is a record of five strings: its   *)
(* kind k and up to four components.  An IRI, a blank node and a literal   *)
(* use a (and b for the literal's datatype); an embedded triple uses a, b, *)
(* c for subject, predicate and object and d for the object's kind (the    *)
(* word "iri" or the datatype of a literal object).                        *)
(*                                                                         *)
(* The order in which quads_matching and HashMap iteration return their    *)
(* items is implementation-defined.  Wherever the code's outcome depends   *)
(* on it the model keeps every outcome: the *All operators return the set  *)
(* of outcomes over every iteration order.  The per-record output Vec of   *)
(* resolve is kept as a bag (its order is an iteration artefact).          *)
(***************************************************************************)
EXTENDS Bags, FiniteSets, Integers, Sequences, TLC

VARIABLES
    cfg,        \* the mapping document loaded at construction (never changes)
    store,      \* Dataset.source: the set of quads
    request,    \* the arguments of the last call
    fieldMap,   \* the FieldMap (`map`) the last resolve built, {} when it built none
    result,     \* what the last call returned
    file,       \* the CSV document a CsvReader reads (never changes)
    reader,     \* the fields of the CsvReader
    yielded     \* the items the CsvReader's next() has returned so far

vars == <<cfg, store, request, fieldMap, result, file, reader, yielded>>

csvVars == <<file, reader, yielded>>

\* ------------------------------------------------------------------ bounds

\* The number of row quads a behaviour may add to the store.
MaxQuads == 3

\* The number of records after the header row of a CSV document.
MaxRecords == 3

\* ------------------------------------------------------------------- terms

Term(k, a, b, c, d) == [k |-> k, a |-> a, b |-> b, c |-> c, d |-> d]

Iri(x) == Term("iri", x, "", "", "")

BlankNode(x) == Term("bnode", x, "", "", "")

LiteralDatatype(v, t) == Term("lit", v, t, "", "")

Triple(s, p, o, okind) == Term("triple", s, p, o, okind)

\* The graph name None.
DefaultGraph == Term("default", "", "", "", "")

Quad(s, p, o, g) == [s |-> s, p |-> p, o |-> o, g |-> g]

\* rdf::Literal: String(text) or UInt64(n), the number kept as its decimal text.
LitString(v) == [t |-> "String", v |-> v]

LitUInt64(v) == [t |-> "UInt64", v |-> v]

\* ------------------------------------------------------------- vocabulary

XsdString == "http://www.w3.org/2001/XMLSchema#string"

XsdBoolean == "http://www.w3.org/2001/XMLSchema#boolean"

XsdDecimal == "http://www.w3.org/2001/XMLSchema#decimal"

XsdInteger == "http://www.w3.org/2001/XMLSchema#integer"

MappingNs == "http://arga.org.au/schemas/mapping/"

MSame == MappingNs \o "same"

MCombines == MappingNs \o "combines"

MHash == MappingNs \o "hash"

MHashFirst == MappingNs \o "hash_first"

MWhen == MappingNs \o "when"

MFrom == MappingNs \o "from"

MIs == MappingNs \o "is"

MVia == MappingNs \o "via"

MTransformsInto == MappingNs \o "transforms_into"

\* An IRI of the mapping namespace that names no operator and no condition.
MEquals == MappingNs \o "equals"

RdfNs == "http://www.w3.org/1999/02/22-rdf-syntax-ns"

RdfFirst == RdfNs \o "#first"

RdfRest == RdfNs \o "#rest"

RdfNil == RdfNs \o "#nil"

\* DataTypes (IriEnum): the datatype IRI decoded, "" when it is none of the four.
DataTypes(iri) ==
    IF iri = XsdString THEN "String"
    ELSE IF iri = XsdBoolean THEN "Boolean"
    ELSE IF iri = XsdDecimal THEN "Decimal"
    ELSE IF iri = XsdInteger THEN "Integer"
    ELSE ""

\* The decoding with every unknown IRI taken for mapping:same.
MappingLenient(iri) ==
    IF iri = MCombines THEN "Combines"
    ELSE IF iri = MHash THEN "Hash"
    ELSE IF iri = MHashFirst THEN "HashFirst"
    ELSE IF iri = MWhen THEN "When"
    ELSE IF iri = MFrom THEN "From"
    ELSE "Same"

\* Mapping (IriEnum): the operator an IRI names, "" when it names none.
Mapping(iri) ==
    IF iri = MSame THEN "Same"
    ELSE IF iri = MCombines THEN "Combines"
    ELSE IF iri = MHash THEN "Hash"
    ELSE IF iri = MHashFirst THEN "HashFirst"
    ELSE IF iri = MWhen THEN "When"
    ELSE IF iri = MFrom THEN "From"
    ELSE ""

\* Rdfs (IriEnum).
Rdfs(iri) ==
    IF iri = RdfFirst THEN "First"
    ELSE IF iri = RdfRest THEN "Rest"
    ELSE IF iri = RdfNil THEN "Nil"
    ELSE ""

\* ------------------------------------------------------------------ helpers

\* Every order in which an iteration can return the members of S.
Perms(S) ==
    {s \in [1..Cardinality(S) -> S] :
        \A i, j \in 1..Cardinality(S) : i # j => s[i] # s[j]}

Range(s) == {s[i] : i \in 1..Len(s)}

RECURSIVE SeqToBag(_)
SeqToBag(s) ==
    IF s = <<>> THEN EmptyBag
    ELSE SetToBag({Head(s)}) (+) SeqToBag(Tail(s))

RECURSIVE Repeat(_, _)
Repeat(x, n) == IF n = 0 THEN <<>> ELSE <<x>> \o Repeat(x, n - 1)

\* ------------------------------------------------------------------- maps

NoLit == [t |-> "", v |-> ""]

\* rdf::Map, one record shape for the six variants.
MapSame(iri) ==
    [op |-> "Same", iri |-> iri, iris |-> <<>>, cond |-> NoLit, graph |-> "", via |-> ""]

MapHash(iri) ==
    [op |-> "Hash", iri |-> iri, iris |-> <<>>, cond |-> NoLit, graph |-> "", via |-> ""]

MapHashFirst(iris) ==
    [op |-> "HashFirst", iri |-> "", iris |-> iris, cond |-> NoLit, graph |-> "", via |-> ""]

MapCombines(iris) ==
    [op |-> "Combines", iri |-> "", iris |-> iris, cond |-> NoLit, graph |-> "", via |-> ""]

\* Map::When(iri, Condition::Is(literal))
MapWhen(iri, literal) ==
    [op |-> "When", iri |-> iri, iris |-> <<>>, cond |-> literal, graph |-> "", via |-> ""]

MapFrom(graph, via) ==
    [op |-> "From", iri |-> "", iris |-> <<>>, cond |-> NoLit, graph |-> graph, via |-> via]

NoMap == [op |-> "", iri |-> "", iris |-> <<>>, cond |-> NoLit, graph |-> "", via |-> ""]

\* --------------------------------------------------------------- outcomes
\* What a call returns: Ok(val), Err(error), or the end of the process by a
\* panic (unimplemented!(), todo!(), unwrap on Err) or by unbounded recursion.

Ok(val) == [st |-> "ok", err |-> "", iri |-> "", vals |-> <<>>, map |-> NoMap, val |-> val]

Fail(st, err, iri, vals, map, empty) ==
    [st |-> st, err |-> err, iri |-> iri, vals |-> vals, map |-> map, val |-> empty]

\* TransformError::Parse(sophia::iri::InvalidIri)
ParseError(iri, empty) == Fail("err", "Parse", iri, <<>>, NoMap, empty)

\* TransformError::InvalidMappingIri(String)
InvalidMappingIri(iri, empty) == Fail("err", "InvalidMappingIri", iri, <<>>, NoMap, empty)

\* TransformError::MissingEntityId
MissingEntityId(empty) == Fail("err", "MissingEntityId", "", <<>>, NoMap, empty)

\* ResolveError::IriNotFound(String)
IriNotFound(iri, empty) == Fail("err", "IriNotFound", iri, <<>>, NoMap, empty)

\* ResolveError::UnsupportedMapping(Map)
UnsupportedMapping(map, empty) == Fail("err", "UnsupportedMapping", "", <<>>, map, empty)

\* ResolveError::AmbiguousMapping(IriBuf, Vec<Literal>)
AmbiguousMapping(iri, vals, empty) == Fail("err", "AmbiguousMapping", iri, vals, NoMap, empty)

\* unimplemented!() / todo!() / unwrap(): the process panics.
Panic(empty) == Fail("panic", "", "", <<>>, NoMap, empty)

\* Recursion that never returns: the stack overflows and the process aborts.
StackOverflow(empty) == Fail("overflow", "", "", <<>>, NoMap, empty)

\* The `?` operator: the failure r handed on by a caller whose Ok type differs.
Propagate(r, empty) == [r EXCEPT !.val = empty]

\* --------------------------------------------------- operand lists (RDF lists)

\* The blank nodes that are the subject of some quad of S.
ListNodes(S) == {q.s.a : q \in {x \in S : x.s.k = "bnode"}}

NodeQuads(S, node) == {q \in S : q.s = BlankNode(node)}

\* The store's iteration orders for the quads of each blank node: one function
\* per choice, from the node to the sequence in which its quads are returned.
RECURSIVE OrdersOver(_, _)
OrdersOver(S, nodes) ==
    IF nodes = {} THEN {<<>>}
    ELSE LET n == CHOOSE x \in nodes : TRUE
         IN {(n :> p) @@ o : p \in Perms(NodeQuads(S, n)), o \in OrdersOver(S, nodes \ {n})}

ListOrders(S) == OrdersOver(S, ListNodes(S))

\* quads_matching([node], Any, Any, GraphIriName(graph)) in the order ord.
NodeQuadSeq(ord, node, graph) ==
    IF node \in DOMAIN ord
    THEN LET InGraph(q) == q.g = Iri(graph) IN SelectSeq(ord[node], InGraph)
    ELSE <<>>

\* Resolver::collect_iris.  path holds the nodes whose call is on the stack: the
\* store does not change during the walk, so a call for a node of the path
\* repeats itself without end.
RECURSIVE CollectIris(_, _, _, _, _)
RECURSIVE CollectLoop(_, _, _, _, _)
CollectLoop(iris, quads, graph, path, ord) ==
    IF quads = <<>> THEN Ok(iris)
    ELSE LET q == Head(quads)
             pred == IF q.p.k = "iri" THEN Rdfs(q.p.a) ELSE ""
         IN IF pred = "" THEN InvalidMappingIri(q.p.a, <<>>)
            ELSE IF pred = "First"
            THEN CollectLoop(IF q.o.k = "iri" THEN Append(iris, q.o.a) ELSE iris,
                             Tail(quads), graph, path, ord)
            ELSE IF pred = "Rest"
            THEN IF q.o.k = "bnode"
                 THEN LET r == CollectIris(iris, q.o.a, graph, path, ord)
                      IN IF r.st = "ok"
                         THEN CollectLoop(r.val, Tail(quads), graph, path, ord)
                         ELSE r
                 ELSE IF q.o.k = "iri"
                 THEN IF Rdfs(q.o.a) = "Nil" THEN Ok(iris)
                      ELSE IF Rdfs(q.o.a) = "" THEN InvalidMappingIri(q.o.a, <<>>)
                      ELSE Panic(<<>>)
                 ELSE Panic(<<>>)
            ELSE Ok(iris)
CollectIris(iris, node, graph, path, ord) ==
    IF node \in path THEN StackOverflow(<<>>)
    ELSE CollectLoop(iris, NodeQuadSeq(ord, node, graph), graph, path \cup {node}, ord)

\* --------------------------------------------------------------- field_map

\* impl TryFrom<&SimpleTerm> for Literal, applied to the object of an embedded
\* triple (value c, kind d).
LiteralTryFrom(o) ==
    IF o.d = "iri" THEN MissingEntityId(NoLit)
    ELSE IF DataTypes(o.d) = "" THEN InvalidMappingIri(o.d, NoLit)
    ELSE IF DataTypes(o.d) = "String" THEN Ok(LitString(o.c))
    ELSE Panic(NoLit)

\* The body of field_map's loop: the Map a mapping quad decodes to.
MapOfQuad(q, ord) ==
    LET predicate == IF q.p.k = "iri" THEN Mapping(q.p.a) ELSE ""
        o == q.o
    IN IF predicate = "" THEN InvalidMappingIri(q.p.a, NoMap)
       ELSE IF predicate = "Same"
       THEN IF o.k = "iri" THEN Ok(MapSame(o.a)) ELSE Panic(NoMap)
       ELSE IF predicate = "Hash"
       THEN IF o.k = "iri" THEN Ok(MapHash(o.a)) ELSE Panic(NoMap)
       ELSE IF predicate \in {"HashFirst", "Combines"}
       THEN IF o.k = "bnode"
            THEN LET r == CollectIris(<<>>, o.a, q.g.a, {}, ord)
                 IN IF r.st # "ok" THEN Propagate(r, NoMap)
                    ELSE IF predicate = "HashFirst" THEN Ok(MapHashFirst(r.val))
                    ELSE Ok(MapCombines(r.val))
            ELSE Panic(NoMap)
       ELSE IF predicate = "When"
       THEN IF o.k = "triple"
            THEN IF o.b # MIs THEN InvalidMappingIri(o.b, NoMap)
                 ELSE LET l == LiteralTryFrom(o)
                      IN IF l.st = "ok" THEN Ok(MapWhen(o.a, l.val))
                         ELSE Propagate(l, NoMap)
            ELSE Panic(NoMap)
       ELSE IF o.k = "triple"
            THEN IF o.b # MVia THEN InvalidMappingIri(o.b, NoMap)
                 ELSE IF o.d = "iri" THEN Ok(MapFrom(o.a, o.c))
                 ELSE Panic(NoMap)
            ELSE Panic(NoMap)

\* The mapping quads of the fields in every graph, the scope ignored.
FieldMapQuadsAnyGraph(S, fields, scope) ==
    {q \in S : q.s.k = "iri" /\ q.s.a \in Range(fields)}

\* quads_matching(terms, Any, Any, scope_terms): the quads whose subject is one
\* of the fields and whose graph name is one of the scope IRIs.
FieldMapQuads(S, fields, scope) ==
    {q \in S : /\ q.s.k = "iri" /\ q.s.a \in Range(fields)
               /\ q.g.k = "iri" /\ q.g.a \in scope}

\* Resolver::field_map.  The FieldMap is kept as the set of its (key, Map)
\* entries, each with the quad it was decoded from (two quads can decode to
\* equal Maps).  The first quad that fails ends the call, and any failing quad
\* can be the first.
FieldMapAll(S, fields, scope, ord) ==
    LET qs == FieldMapQuads(S, fields, scope)
        outs == [q \in qs |-> MapOfQuad(q, ord)]
        bad == {q \in qs : outs[q].st # "ok"}
    IN IF bad = {}
       THEN {Ok({[key |-> q.s.a, map |-> outs[q].val, q |-> q] : q \in qs})}
       ELSE {Propagate(outs[q], {}) : q \in bad}

\* map.get(iri): the Maps of one key.
MapsOf(fm, key) == {e.map : e \in {x \in fm : x.key = key}}

EntriesOf(fm, key) == {e \in fm : e.key = key}

\* ----------------------------------------------------- resolve_field_terms

\* The inner loop without the rejection of the Maps that are not Same.
OperandErrorsLenient(fm, iri) ==
    IF EntriesOf(fm, iri) = {} THEN {IriNotFound(iri, {})} ELSE {}

\* The Same targets of a list operand, or the failure of the inner loop.
OperandErrors(fm, iri) ==
    IF EntriesOf(fm, iri) = {} THEN {IriNotFound(iri, {})}
    ELSE {UnsupportedMapping(m, {}) : m \in {x \in MapsOf(fm, iri) : x.op # "Same"}}

RECURSIVE ListErrors(_, _)
ListErrors(fm, iris) ==
    IF iris = <<>> THEN {}
    ELSE IF OperandErrors(fm, Head(iris)) # {} THEN OperandErrors(fm, Head(iris))
    ELSE ListErrors(fm, Tail(iris))

FieldTermErrors(fm, field) ==
    UNION {ListErrors(fm, e.map.iris) :
              e \in {x \in EntriesOf(fm, field) : x.map.op \in {"HashFirst", "Combines"}}}

MapTerms(fm, m) ==
    IF m.op \in {"Same", "Hash", "When"} THEN {m.iri}
    ELSE IF m.op = "From" THEN {m.via}
    ELSE UNION {{t.iri : t \in {x \in MapsOf(fm, i) : x.op = "Same"}} : i \in Range(m.iris)}

RECURSIVE FirstTermErrors(_, _)
FirstTermErrors(fm, fields) ==
    IF fields = <<>> THEN {}
    ELSE IF FieldTermErrors(fm, Head(fields)) # {} THEN FieldTermErrors(fm, Head(fields))
    ELSE FirstTermErrors(fm, Tail(fields))

\* resolve_field_terms: the predicate terms of the data scan.
ResolveFieldTermsAll(fields, fm) ==
    IF FirstTermErrors(fm, fields) # {} THEN FirstTermErrors(fm, fields)
    ELSE {Ok(UNION {MapTerms(fm, e.map) : e \in {x \in fm : x.key \in Range(fields)}})}

\* ----------------------------------------------------------------- records

\* The source IRIs a Map pushes into reverse_map.
MapIris(m) ==
    IF m.op \in {"Same", "Hash"} THEN <<m.iri>>
    ELSE IF m.op \in {"Combines", "HashFirst"} THEN m.iris
    ELSE <<>>

\* reverse_map.get(p): the canonical keys the source IRI p is mapped to.
ReverseKeys(fm, p) == {e.key : e \in {x \in fm : p \in Range(MapIris(x.map))}}

RECURSIVE CountPushes(_, _)
CountPushes(entries, p) ==
    IF entries = {} THEN 0
    ELSE LET e == CHOOSE x \in entries : TRUE
         IN Cardinality({i \in 1..Len(MapIris(e.map)) : MapIris(e.map)[i] = p})
            + CountPushes(entries \ {e}, p)

\* How many times key stands in the Vec reverse_map[p].
ReverseCount(fm, p, key) == CountPushes(EntriesOf(fm, key), p)

\* The conditions Vec: (iri, Condition) of every When.
Conditions(fm) == {<<e.map.iri, e.map.cond>> : e \in {x \in fm : x.map.op = "When"}}

\* The linked Vec: (key, graph, via) of every From.
Linked(fm) ==
    {<<e.key, e.map.graph, e.map.via>> : e \in {x \in fm : x.map.op = "From"}}

\* The scan without the graph matcher: every quad of a mapped predicate.
ScanQuadsAnyGraph(S, terms, scope) ==
    {q \in S : q.p.k = "iri" /\ q.p.a \in terms}

\* quads_matching(Any, terms, Any, GraphIri(scope)): named graphs of the scope
\* only, the default graph never matches (resolver::GraphIri).
ScanQuads(S, terms, scope) ==
    {q \in S : /\ q.p.k = "iri" /\ q.p.a \in terms
               /\ q.g.k = "iri" /\ q.g.a \in scope}

\* The body of the scan loop up to the first push: how a quad fails, if it does.
ScanFailure(fm, q) ==
    IF q.s.k # "lit" THEN Panic(<<>>)
    ELSE IF ReverseKeys(fm, q.p.a) = {} THEN IriNotFound(q.p.a, <<>>)
    ELSE IF q.o.k # "lit" THEN Panic(<<>>)
    ELSE Ok(<<>>)

\* records[subject][key] after the scan returned its quads in the order sq.
RECURSIVE ScanValues(_, _, _, _)
ScanValues(fm, sq, subject, key) ==
    IF sq = <<>> THEN <<>>
    ELSE (IF LitString(Head(sq).s.a) = subject
          THEN Repeat(LitString(Head(sq).o.a), ReverseCount(fm, Head(sq).p.a, key))
          ELSE <<>>)
         \o ScanValues(fm, Tail(sq), subject, key)

ScanRecords(fm, sq) ==
    [subject \in {LitString(q.s.a) : q \in Range(sq)} |->
        [key \in {k \in {e.key : e \in fm} : ScanValues(fm, sq, subject, k) # <<>>} |->
            ScanValues(fm, sq, subject, key)]]

\* record_links[via][value]: the rows that hold value under the linked field via.
RecordLinks(fm, quads, via, value) ==
    {LitString(q.s.a) :
        q \in {x \in quads : LitString(x.o.a) = value /\ via \in ReverseKeys(fm, x.p.a)}}

\* Dataset::get_source_from_model: the IRI subjects of (s, transforms_into,
\* model) in any graph, the default graph included.
GetSourceFromModel(S, model) ==
    {q.s.a : q \in {x \in S : /\ x.p = Iri(MTransformsInto) /\ x.o = Iri(model)
                              /\ x.s.k = "iri"}}

\* HashMap::extend on a ValueMap: every key of values is inserted, a key the
\* row already holds gets the new list in place of the old one.
ExtendValues(record, values) == values @@ record

\* The loop over linked_data, visited in the order given.
RECURSIVE MergeLinked(_, _, _, _, _, _)
MergeLinked(records, linkedData, order, via, fm, quads) ==
    IF order = <<>> THEN records
    ELSE LET values == linkedData[Head(order)]
             rows == IF via \in DOMAIN values
                     THEN RecordLinks(fm, quads, via, values[via][1])
                     ELSE {}
             merged == [idx \in DOMAIN records \cup rows |->
                           IF idx \in rows
                           THEN ExtendValues(IF idx \in DOMAIN records
                                             THEN records[idx] ELSE <<>>, values)
                           ELSE records[idx]]
         IN MergeLinked(merged, linkedData, Tail(order), via, fm, quads)

\* Condition::check
ConditionCheck(cond, value) == value = cond

\* The filter closure: a record passes when every value it holds under the IRI
\* of each condition passes the check.
PassesConditions(fm, record) ==
    \A c \in Conditions(fm) :
        c[1] \in DOMAIN record =>
            \A i \in 1..Len(record[c[1]]) : ConditionCheck(c[2], record[c[1]][i])

FilterRecords(fm, records) ==
    [idx \in {r \in DOMAIN records : PassesConditions(fm, records[r])} |-> records[idx]]

\* Resolver::records.  path holds the (fields, scope) of the calls on the
\* stack: a call with arguments of the path repeats itself without end.
RECURSIVE RecordsAll(_, _, _, _, _)
RECURSIVE LinkAll(_, _, _, _, _, _, _)
LinkAll(S, records, links, fm, quads, path, ord) ==
    IF links = <<>> THEN {Ok(records)}
    ELSE LET key == Head(links)[1]
             graph == Head(links)[2]
             via == Head(links)[3]
             models == GetSourceFromModel(S, graph) \cup {graph}
         IN UNION {IF ld.st # "ok" THEN {ld}
                   ELSE UNION {LinkAll(S, MergeLinked(records, ld.val, o, via, fm, quads),
                                       Tail(links), fm, quads, path, ord) :
                                  o \in Perms(DOMAIN ld.val)} :
                      ld \in RecordsAll(S, <<key, via>>, models, path, ord)}
RecordsAfterScan(S, fields, scope, path, ord, fm, terms) ==
    LET quads == ScanQuads(S, terms, scope)
        bad == {q \in quads : ScanFailure(fm, q).st # "ok"}
    IN IF bad # {} THEN {ScanFailure(fm, q) : q \in bad}
       ELSE UNION {{IF out.st = "ok" THEN Ok(FilterRecords(fm, out.val)) ELSE out :
                      out \in LinkAll(S, ScanRecords(fm, sq), lo, fm, quads,
                                      path \cup {<<fields, scope>>}, ord)} :
                     sq \in Perms(quads), lo \in Perms(Linked(fm))}
RecordsAll(S, fields, scope, path, ord) ==
    IF <<fields, scope>> \in path THEN {StackOverflow(<<>>)}
    ELSE UNION {IF fmo.st # "ok" THEN {Propagate(fmo, <<>>)}
                ELSE UNION {IF t.st # "ok" THEN {Propagate(t, <<>>)}
                            ELSE RecordsAfterScan(S, fields, scope, path, ord,
                                                  fmo.val, t.val) :
                               t \in ResolveFieldTermsAll(fields, fmo.val)} :
                   fmo \in FieldMapAll(S, fields, scope, ord)}

\* ----------------------------------------------------------------- resolve

\* The values without the filter on empty strings.
PresentAll(values) == [i \in 1..Len(values) |-> values[i].v]

\* The values cut to the first non-empty one, as if more were never observed.
PresentFirst(values) ==
    LET ne == SelectSeq(values, LAMBDA l : ~(l.t = "String" /\ l.v = ""))
    IN IF ne = <<>> THEN <<>> ELSE <<ne[1].v>>

\* The filter_map of the Combines arm: "only return strings with actual data".
RECURSIVE Present(_)
Present(values) ==
    IF values = <<>> THEN <<>>
    ELSE (IF Head(values).t = "String" /\ Head(values).v = ""
          THEN <<>> ELSE <<Head(values).v>>)
         \o Present(Tail(values))

\* [String]::join(sep)
RECURSIVE Join(_, _)
Join(strs, sep) ==
    IF strs = <<>> THEN ""
    ELSE IF Len(strs) = 1 THEN Head(strs)
    ELSE Head(strs) \o sep \o Join(Tail(strs), sep)

\* The loop of the Combines arm: to_combine, or the AmbiguousMapping of the
\* first operand (in list order) with more than one present value.
RECURSIVE ToCombine(_, _)
ToCombine(iris, record) ==
    IF iris = <<>> THEN Ok(<<>>)
    ELSE LET iri == Head(iris)
             present == IF iri \in DOMAIN record THEN Present(record[iri]) ELSE <<>>
         IN IF Len(present) > 1 THEN AmbiguousMapping(iri, record[iri], <<>>)
            ELSE LET r == ToCombine(Tail(iris), record)
                 IN IF r.st # "ok" THEN r
                    ELSE Ok((IF present = <<>> THEN <<>> ELSE <<Head(present)>>) \o r.val)

\* The loop of the HashFirst arm: the values of the first operand, in list
\* order, that the record has an entry for.
RECURSIVE HashFirstValue(_, _)
HashFirstValue(iris, record) ==
    IF iris = <<>> THEN <<>>
    ELSE IF Head(iris) \in DOMAIN record THEN record[Head(iris)]
    ELSE HashFirstValue(Tail(iris), record)

\* The match on field_map in resolve: the literals a Map yields for one record
\* (None and an empty list both yield nothing).
MapResult(m, field, record) ==
    IF m.op \in {"Same", "Hash"}
    THEN Ok(IF field \in DOMAIN record THEN record[field] ELSE <<>>)
    ELSE IF m.op = "HashFirst" THEN Ok(HashFirstValue(m.iris, record))
    ELSE IF m.op = "Combines"
    THEN LET c == ToCombine(m.iris, record)
         IN IF c.st # "ok" THEN c ELSE Ok(<<LitString(Join(c.val, " "))>>)
    ELSE Ok(<<>>)

\* R::from((T, Literal)) for the string-valued fields: the variant of the
\* field holding the text.
TypedField(field, literal) == [field |-> field, value |-> literal.v]

SetToSeq(S) == CHOOSE s \in Perms(S) : TRUE

RECURSIVE EntriesOutput(_, _, _)
EntriesOutput(entries, field, record) ==
    IF entries = <<>> THEN <<>>
    ELSE LET vals == MapResult(Head(entries).map, field, record).val
         IN [i \in 1..Len(vals) |-> TypedField(field, vals[i])]
            \o EntriesOutput(Tail(entries), field, record)

\* Everything pushed to data[entity_id] for one record.
RECURSIVE RecordOutput(_, _, _)
RecordOutput(fm, fields, record) ==
    IF fields = <<>> THEN <<>>
    ELSE EntriesOutput(SetToSeq(EntriesOf(fm, Head(fields))), Head(fields), record)
         \o RecordOutput(fm, Tail(fields), record)

\* The AmbiguousMapping failures of one field: any record and any Map of the
\* field can be the first the loops reach.
FieldFailures(fm, field, records) ==
    {o \in {MapResult(e.map, field, records[r]) :
               e \in EntriesOf(fm, field), r \in DOMAIN records} : o.st # "ok"}

RECURSIVE FirstFailures(_, _, _)
FirstFailures(fm, fields, records) ==
    IF fields = <<>> THEN {}
    ELSE IF FieldFailures(fm, Head(fields), records) # {}
    THEN FieldFailures(fm, Head(fields), records)
    ELSE FirstFailures(fm, Tail(fields), records)

\* The loops of resolve over fields, records and Maps.
ResolveData(fm, fields, records) ==
    IF FirstFailures(fm, fields, records) # {} THEN FirstFailures(fm, fields, records)
    ELSE {Ok([idx \in {r \in DOMAIN records : RecordOutput(fm, fields, records[r]) # <<>>}
                 |-> SeqToBag(RecordOutput(fm, fields, records[idx]))])}

\* Resolver::resolve from the call of records on, map being the FieldMap fm.
ResolveAfterMap(S, fields, scope, ord, fm) ==
    UNION {IF r.st # "ok" THEN {r} ELSE ResolveData(fm, fields, r.val) :
              r \in RecordsAll(S, fields, scope, {}, ord)}

\* Resolver::resolve with the store's list iteration order ord.
ResolveWith(S, fields, scope, ord) ==
    UNION {IF fmo.st # "ok" THEN {Propagate(fmo, <<>>)}
           ELSE ResolveAfterMap(S, fields, scope, ord, fmo.val) :
              fmo \in FieldMapAll(S, fields, scope, ord)}

\* Every outcome of resolve(fields, scope) on the store S.
ResolveAll(S, fields, scope) ==
    UNION {ResolveWith(S, fields, scope, ord) : ord \in ListOrders(S)}

\* ------------------------------------------------------------ the dataset

FieldsNs == "http://arga.org.au/schemas/fields/"

\* Dataset.map / Dataset.schema: the prefix given to Dataset::new.
SchemaPrefix == "http://arga.org.au/schemas/maps/test/"

SourceNs == "http://arga.org.au/source/"

\* A canonical field IRI, a source predicate IRI, a model graph (Dataset::scope:
\* map prefix + model name) and a source graph (Dataset::load).
Field(name) == FieldsNs \o name

Src(header) == SchemaPrefix \o header

ModelGraph(model) == SchemaPrefix \o model

SourceGraph(source) == SourceNs \o source

\* A quad of a mapping document: IRI subject and predicate in a named graph.
MapQuad(s, p, o, g) == Quad(Iri(s), Iri(p), o, Iri(g))

\* The quads of the RDF list ( first second ) headed by the blank node b1.
List2(b1, b2, first, second, g) ==
    {Quad(BlankNode(b1), Iri(RdfFirst), Iri(first), Iri(g)),
     Quad(BlankNode(b1), Iri(RdfRest), BlankNode(b2), Iri(g)),
     Quad(BlankNode(b2), Iri(RdfFirst), Iri(second), Iri(g)),
     Quad(BlankNode(b2), Iri(RdfRest), Iri(RdfNil), Iri(g))}

\* The mapping documents load_trig puts in the store at construction
\* (Transformer::new), one per configuration.
Doc(c) ==
    IF c = "same"
    THEN {MapQuad(Field("canonical_name"), MSame, Iri(Src("species_name")),
                  ModelGraph("names")),
          MapQuad(Field("canonical_name"), MSame, Iri(Src("other_name")),
                  ModelGraph("tissues")),
          Quad(Iri(Field("canonical_name")), Iri(MHash), Iri(Src("species_name")),
               DefaultGraph)}
    ELSE IF c = "same_twice"
    THEN {MapQuad(Field("canonical_name"), MSame, Iri(Src("species_name")),
                  ModelGraph("names")),
          MapQuad(Field("canonical_name"), MSame, Iri(Src("species_name")),
                  ModelGraph("tissues"))}
    ELSE IF c = "combines"
    THEN {MapQuad(Field("scientific_name"), MCombines, BlankNode("l1"),
                  ModelGraph("names")),
          MapQuad(Field("genus"), MSame, Iri(Src("genus")), ModelGraph("names")),
          MapQuad(Field("specific_epithet"), MSame, Iri(Src("species")),
                  ModelGraph("names"))}
         \cup List2("l1", "l2", Field("genus"), Field("specific_epithet"),
                    ModelGraph("names"))
    ELSE IF c = "when_int"
    THEN {MapQuad(Field("entity_id"), MSame, Iri(Src("id")), ModelGraph("names")),
          MapQuad(Field("entity_id"), MWhen,
                  Triple(Src("status"), MIs, "5", XsdInteger), ModelGraph("names"))}
    ELSE IF c = "invalid"
    THEN {MapQuad(Field("entity_id"), MEquals, Iri(Src("id")), ModelGraph("names")),
          MapQuad(Field("canonical_name"), MWhen,
                  Triple(Src("status"), MEquals, "Full", XsdString), ModelGraph("names")),
          MapQuad(Field("scientific_name"), MFrom,
                  Triple(ModelGraph("tissues"), MEquals, Field("tissue_id"), "iri"),
                  ModelGraph("names")),
          MapQuad(Field("specific_epithet"), MWhen,
                  Triple(Src("status"), MIs, Src("full"), "iri"), ModelGraph("names")),
          MapQuad(Field("genus"), MSame, Iri(Src("genus")), ModelGraph("names"))}
    ELSE IF c = "unsupported"
    THEN {MapQuad(Field("scientific_name"), MCombines, BlankNode("l1"),
                  ModelGraph("names")),
          MapQuad(Field("genus"), MSame, Iri(Src("genus")), ModelGraph("names")),
          MapQuad(Field("specific_epithet"), MHash, Iri(Src("species")),
                  ModelGraph("names"))}
         \cup List2("l1", "l2", Field("genus"), Field("specific_epithet"),
                    ModelGraph("names"))
    ELSE IF c = "cycle"
    THEN {MapQuad(Field("scientific_name"), MCombines, BlankNode("l1"),
                  ModelGraph("names")),
          MapQuad(Field("genus"), MSame, Iri(Src("genus")), ModelGraph("names")),
          Quad(BlankNode("l1"), Iri(RdfFirst), Iri(Field("genus")),
               Iri(ModelGraph("names"))),
          Quad(BlankNode("l1"), Iri(RdfRest), BlankNode("l2"), Iri(ModelGraph("names"))),
          Quad(BlankNode("l2"), Iri(RdfFirst), Iri(Field("genus")),
               Iri(ModelGraph("names"))),
          Quad(BlankNode("l2"), Iri(RdfRest), BlankNode("l1"), Iri(ModelGraph("names")))}
    ELSE IF c = "hash_first"
    THEN {MapQuad(Field("entity_id"), MHashFirst, BlankNode("h1"), ModelGraph("names")),
          MapQuad(Field("accession"), MSame, Iri(Src("accession")), ModelGraph("names")),
          MapQuad(Field("alt_accession"), MSame, Iri(Src("alt_accession")),
                  ModelGraph("names"))}
         \cup List2("h1", "h2", Field("accession"), Field("alt_accession"),
                    ModelGraph("names"))
    ELSE IF c = "hash"
    THEN {MapQuad(Field("entity_id"), MHash, Iri(Src("accession")), ModelGraph("names")),
          MapQuad(Field("accession"), MSame, Iri(Src("accession")), ModelGraph("names"))}
    ELSE IF c = "when"
    THEN {MapQuad(Field("entity_id"), MSame, Iri(Src("id")), ModelGraph("names")),
          MapQuad(Field("entity_id"), MWhen,
                  Triple(Src("status"), MIs, "Full", XsdString), ModelGraph("names"))}
    ELSE IF c = "when_field"
    THEN {MapQuad(Field("entity_id"), MSame, Iri(Src("id")), ModelGraph("names")),
          MapQuad(Field("status"), MSame, Iri(Src("status")), ModelGraph("names")),
          MapQuad(Field("entity_id"), MWhen,
                  Triple(Field("status"), MIs, "Full", XsdString), ModelGraph("names"))}
    ELSE IF c = "from_default"
    THEN {MapQuad(Field("tissue_id"), MSame, Iri(Src("tissue_id")),
                  ModelGraph("subsamples")),
          MapQuad(Field("scientific_name"), MFrom,
                  Triple(ModelGraph("tissues"), MVia, Field("tissue_id"), "iri"),
                  ModelGraph("subsamples")),
          MapQuad(Field("tissue_id"), MSame, Iri(Src("tissue_id")),
                  ModelGraph("tissues")),
          Quad(Iri(SourceGraph("b")), Iri(MTransformsInto), Iri(ModelGraph("tissues")),
               DefaultGraph)}
    ELSE IF c = "from_self"
    THEN {MapQuad(Field("tissue_id"), MSame, Iri(Src("tissue_id")),
                  ModelGraph("tissues")),
          MapQuad(Field("scientific_name"), MFrom,
                  Triple(ModelGraph("tissues"), MVia, Field("tissue_id"), "iri"),
                  ModelGraph("tissues")),
          MapQuad(SourceGraph("b"), MTransformsInto, Iri(ModelGraph("tissues")),
                  ModelGraph("tissues"))}
    ELSE {MapQuad(Field("tissue_id"), MSame, Iri(Src("tissue_id")),
                  ModelGraph("subsamples")),
          MapQuad(Field("scientific_name"), MFrom,
                  Triple(ModelGraph("tissues"), MVia, Field("tissue_id"), "iri"),
                  ModelGraph("subsamples")),
          MapQuad(Field("tissue_id"), MSame, Iri(Src("tissue_id")),
                  ModelGraph("tissues")),
          MapQuad(Field("scientific_name"), MSame, Iri(Src("scientific_name")),
                  ModelGraph("tissues")),
          MapQuad(SourceGraph("b"), MTransformsInto, Iri(ModelGraph("tissues")),
                  ModelGraph("tissues"))}

Configs ==
    {"same", "same_twice", "combines", "unsupported", "invalid", "when_int", "cycle", "hash_first", "hash", "when", "when_field", "from", "from_default",
     "from_self"}

\* dataset::Triple (index, field, value), as the item Ok(triple) of the iterator
\* given to load; ok = FALSE is an Err item.
OkTriple(idx, header, literal) ==
    [ok |-> TRUE, idx |-> idx, header |-> header, literal |-> literal]

TriplesOver(rows, header, values) ==
    {OkTriple(i, header, LitString(v)) : i \in rows, v \in values}

Rows == {0, 1}

\* The items a data source of the configuration can yield.
Items(c) ==
    IF c = "same"
    THEN TriplesOver(Rows, "species_name", {"Felis catus", "Canis lupus"})
         \cup TriplesOver({0}, "other_name", {"Felis catus"})
    ELSE IF c = "same_twice"
    THEN TriplesOver({0}, "species_name", {"Felis catus", "Canis lupus"})
    ELSE IF c = "combines"
    THEN TriplesOver(Rows, "genus", {"Felis", ""})
         \cup TriplesOver({0}, "genus", {"Canis"})
         \cup TriplesOver({0}, "species", {"catus", ""})
    ELSE IF c = "when_int"
    THEN TriplesOver({0}, "id", {"e1"}) \cup TriplesOver({0}, "status", {"5"})
    ELSE IF c = "invalid"
    THEN TriplesOver({0}, "genus", {"Felis"})
    ELSE IF c = "unsupported"
    THEN TriplesOver({0}, "genus", {"Felis"}) \cup TriplesOver({0}, "species", {"catus"})
    ELSE IF c = "cycle"
    THEN TriplesOver({0}, "genus", {"Felis"})
    ELSE IF c = "hash_first"
    THEN TriplesOver(Rows, "accession", {"ABC", ""})
         \cup TriplesOver(Rows, "alt_accession", {"XYZ"})
    ELSE IF c = "hash"
    THEN TriplesOver(Rows, "accession", {"ABC", "XYZ"})
    ELSE IF c \in {"when", "when_field"}
    THEN TriplesOver(Rows, "id", {"A1"})
         \cup TriplesOver(Rows, "status", {"Full", "Draft"})
    ELSE IF c \in {"from_self", "from_default"}
    THEN TriplesOver({0}, "tissue_id", {"T1", "T2"})
    ELSE TriplesOver(Rows, "tissue_id", {"T1", "T2"})
         \cup TriplesOver({0}, "scientific_name", {"Felis catus"})

\* An Err item of the iterator given to load.
ErrTriple == [ok |-> FALSE, idx |-> 0, header |-> "", literal |-> NoLit]

\* A header that makes no IRI when it is appended to the schema namespace.
InvalidHeader == "genus name"

\* The iterators load is called with: one triple; for the first configuration
\* also a triple followed by the same triple, by an Err item or by a triple
\* whose header makes no IRI.
Batches(c) ==
    {<<item>> : item \in Items(c)}
    \cup (IF c = "same"
          THEN {<<item, item>> : item \in Items(c)}
               \cup {<<item, last>> :
                        item \in Items(c),
                        last \in {ErrTriple, OkTriple(0, InvalidHeader, LitString("Felis"))}}
          ELSE {})

\* The source names load is called with.
Sources(c) ==
    IF c \in {"same", "hash", "from", "from_default"} THEN {"a", "b"}
    ELSE IF c = "from_self" THEN {"b"}
    ELSE {"a"}

Req(fields, scope) == [fields |-> fields, scope |-> scope]

\* The (fields, scope) arguments resolve is called with.
Requests(c) ==
    IF c = "same"
    THEN {Req(<<Field("canonical_name")>>, sc) :
             sc \in {{ModelGraph("names"), SourceGraph("a")},
                     {ModelGraph("names"), SourceGraph("a"), SourceGraph("b")},
                     {SourceGraph("a")}}}
    ELSE IF c = "same_twice"
    THEN {Req(<<Field("canonical_name")>>,
              {ModelGraph("names"), ModelGraph("tissues"), SourceGraph("a")})}
    ELSE IF c = "combines"
    THEN {Req(f, {ModelGraph("names"), SourceGraph("a")}) :
             f \in {<<Field("scientific_name"), Field("genus"), Field("specific_epithet")>>,
                    <<Field("scientific_name")>>}}
    ELSE IF c = "when_int"
    THEN {Req(<<Field("entity_id")>>, {ModelGraph("names"), SourceGraph("a")})}
    ELSE IF c = "invalid"
    THEN {Req(f, {ModelGraph("names"), SourceGraph("a")}) :
             f \in {<<Field("entity_id")>>, <<Field("canonical_name")>>,
                    <<Field("scientific_name")>>, <<Field("genus")>>,
                    <<Field("genus"), Field("entity_id")>>,
                    <<Field("entity_id"), Field("canonical_name")>>,
                    <<Field("entity_id"), Field("specific_epithet")>>}}
    ELSE IF c = "unsupported"
    THEN {Req(f, {ModelGraph("names"), SourceGraph("a")}) :
             f \in {<<Field("scientific_name"), Field("genus"), Field("specific_epithet")>>,
                    <<Field("scientific_name"), Field("specific_epithet")>>}}
    ELSE IF c = "cycle"
    THEN {Req(f, {ModelGraph("names"), SourceGraph("a")}) :
             f \in {<<Field("scientific_name"), Field("genus")>>, <<Field("genus")>>}}
    ELSE IF c = "hash_first"
    THEN {Req(<<Field("entity_id"), Field("accession"), Field("alt_accession")>>,
              {ModelGraph("names"), SourceGraph("a")})}
    ELSE IF c = "hash"
    THEN {Req(f, {ModelGraph("names"), SourceGraph("a")}) :
             f \in {<<Field("entity_id")>>, <<Field("accession")>>,
                    <<Field("entity_id"), Field("accession")>>}}
    ELSE IF c = "when"
    THEN {Req(<<Field("entity_id")>>, {ModelGraph("names"), SourceGraph("a")})}
    ELSE IF c = "when_field"
    THEN {Req(f, {ModelGraph("names"), SourceGraph("a")}) :
             f \in {<<Field("entity_id"), Field("status")>>, <<Field("entity_id")>>}}
    ELSE IF c = "from_default"
    THEN {Req(<<Field("tissue_id"), Field("scientific_name")>>,
              {ModelGraph("subsamples"), SourceGraph("a")})}
    ELSE IF c = "from_self"
    THEN {Req(f, {ModelGraph("tissues"), SourceGraph("b")}) :
             f \in {<<Field("scientific_name"), Field("tissue_id")>>, <<Field("tissue_id")>>}}
    ELSE {Req(<<Field("tissue_id"), Field("scientific_name")>>,
              {ModelGraph("subsamples"), SourceGraph("a")}),
          Req(<<Field("scientific_name"), Field("tissue_id")>>,
              {ModelGraph("tissues"), SourceGraph("b")})}

\* -------------------------------------------------------------- CsvReader

\* A record of the csv crate's records iterator: Ok(StringRecord) or Err.
OkRecord(fields) == [ok |-> TRUE, fields |-> fields]

ErrRecord == [ok |-> FALSE, fields |-> <<>>]

\* The cells of a CSV document.
Cells == {"1", "2"}

\* The header rows of the CSV documents; the empty document has none.
Headers == {<<>>, <<"a">>, <<"a", "b">>}

\* The records a document with the header row h has after it: a record with
\* one cell per header, or a record the csv reader reports as an error (the
\* reader is not flexible: a record of another length is such an error).
RecordsOf(h) == {OkRecord(f) : f \in [1..Len(h) -> Cells]} \cup {ErrRecord}

\* A CSV document: the header row and the records after it.
CsvFile(h, rows) == [headers |-> h, rows |-> rows]

NoFile == CsvFile(<<>>, <<>>)

\* The documents: the empty one, and a header row with up to MaxRecords
\* records after it.
Files ==
    UNION {{CsvFile(h, rows) :
               rows \in UNION {[1..n -> RecordsOf(h)] :
                                  n \in 0..(IF h = <<>> THEN 0 ELSE MaxRecords)}} :
              h \in Headers}

\* Option<csv::StringRecord>
NoRecord == [some |-> FALSE, fields |-> <<>>]

SomeRecord(fields) == [some |-> TRUE, fields |-> fields]

\* The items of the iterator: Some(Ok(triple)), Some(Err(error)) and None.
NoTriple == [kind |-> "none", idx |-> 0, header |-> "", literal |-> NoLit]

SomeTriple(idx, header, literal) ==
    [kind |-> "ok", idx |-> idx, header |-> header, literal |-> literal]

SomeErr == [kind |-> "err", idx |-> 0, header |-> "", literal |-> NoLit]

\* A reader built without a header row: the first row is a record.
CsvReaderNewNoHeaders(f) ==
    [headers |-> f.headers,
     records |-> IF f.headers = <<>> THEN f.rows ELSE <<OkRecord(f.headers)>> \o f.rows,
     next_row |-> 1,
     next_column |-> 1,
     current_record |-> NoRecord]

\* CsvReader::new
CsvReaderNew(f) ==
    [headers |-> f.headers,
     records |-> f.rows,
     next_row |-> 1,
     next_column |-> 1,
     current_record |-> NoRecord]

\* next_triple that keeps the column where the line ended.
NextTripleNoReset(r) ==
    IF ~r.current_record.some THEN [reader |-> r, out |-> NoTriple]
    ELSE LET current_row == r.next_row - 1
             current_column == r.next_column - 1
             fields == r.current_record.fields
         IN IF current_column < Len(fields)
            THEN [reader |-> [r EXCEPT !.next_column = @ + 1],
                  out |-> SomeTriple(current_row, r.headers[current_column + 1],
                                     LitString(fields[current_column + 1]))]
            ELSE [reader |-> [r EXCEPT !.current_record = NoRecord],
                  out |-> NoTriple]

\* CsvReader::next_triple: the reader after the call and the Option<Triple>
\* it returns (columns are counted from 0 in the code, from 1 in a sequence).
NextTriple(r) ==
    IF ~r.current_record.some THEN [reader |-> r, out |-> NoTriple]
    ELSE LET current_row == r.next_row - 1
             current_column == r.next_column - 1
             fields == r.current_record.fields
         IN IF current_column < Len(fields)
            THEN [reader |-> [r EXCEPT !.next_column = @ + 1],
                  out |-> SomeTriple(current_row, r.headers[current_column + 1],
                                     LitString(fields[current_column + 1]))]
            ELSE [reader |-> [r EXCEPT !.next_column = 1, !.current_record = NoRecord],
                  out |-> NoTriple]

\* An iterator that ends at the first record in error.
IteratorNextUntilErr(r) ==
    LET t == NextTriple(r)
    IN IF t.out.kind = "ok" THEN t
       ELSE LET r1 == t.reader
            IN IF r1.records = <<>> THEN [reader |-> r1, out |-> NoTriple]
               ELSE LET r2 == [r1 EXCEPT !.records = Tail(@)]
                    IN IF ~Head(r1.records).ok THEN [reader |-> r2, out |-> NoTriple]
                       ELSE NextTriple([r2 EXCEPT
                                !.next_row = @ + 1,
                                !.current_record = SomeRecord(Head(r1.records).fields)])

\* Iterator::next for CsvReader: the reader after the call and the item.
IteratorNext(r) ==
    LET t == NextTriple(r)
    IN IF t.out.kind = "ok" THEN t
       ELSE LET r1 == t.reader
            IN IF r1.records = <<>> THEN [reader |-> r1, out |-> NoTriple]
               ELSE LET r2 == [r1 EXCEPT !.records = Tail(@)]
                    IN IF ~Head(r1.records).ok THEN [reader |-> r2, out |-> SomeErr]
                       ELSE NextTriple([r2 EXCEPT
                                !.next_row = @ + 1,
                                !.current_record = SomeRecord(Head(r1.records).fields)])

\* ------------------------------------------------------------------ actions

NoRequest == [op |-> "new", fields |-> <<>>, scope |-> {}, triples |-> <<>>, source |-> ""]

LoadRequest(triples, source) ==
    [op |-> "load", fields |-> <<>>, scope |-> {}, triples |-> triples, source |-> source]

ResolveRequest(fields, scope) ==
    [op |-> "resolve", fields |-> fields, scope |-> scope, triples |-> <<>>, source |-> ""]

\* A load that numbers the rows after the rows the store already holds.
RowQuadAppended(item, source) ==
    Quad(LiteralDatatype(ToString(item.idx + Cardinality(store \ Doc(cfg))), XsdInteger),
         Iri(Src(item.header)),
         IF item.literal.t = "String"
         THEN LiteralDatatype(item.literal.v, XsdString)
         ELSE LiteralDatatype(item.literal.v, XsdInteger),
         Iri(SourceGraph(source)))

\* The quad load inserts for one triple: the row index and the value as typed
\* literals, the header under the schema namespace, the graph of the source.
RowQuad(item, source) ==
    Quad(LiteralDatatype(ToString(item.idx), XsdInteger),
         Iri(Src(item.header)),
         IF item.literal.t = "String"
         THEN LiteralDatatype(item.literal.v, XsdString)
         ELSE LiteralDatatype(item.literal.v, XsdInteger),
         Iri(SourceGraph(source)))

\* The loop of Dataset::load over the items: the quads inserted and the count,
\* up to the first Err item, on which triple.unwrap() panics.
RECURSIVE LoadLoop(_, _, _, _)
LoadLoop(items, source, inserted, total) ==
    IF items = <<>> THEN [quads |-> inserted, out |-> Ok(total)]
    ELSE IF ~Head(items).ok THEN [quads |-> inserted, out |-> Panic(total)]
    ELSE IF Head(items).header = InvalidHeader
    THEN [quads |-> inserted, out |-> ParseError(Head(items).header, total)]
    ELSE LoadLoop(Tail(items), source, inserted \cup {RowQuad(Head(items), source)},
                  total + 1)

\* The process is alive: no call has ended it.
Alive == result.st \in {"ok", "err"}

\* Dataset::new followed by load_trig of the mapping document.
Init ==
    /\ cfg \in Configs
    /\ store = Doc(cfg)
    /\ request = NoRequest
    /\ fieldMap = {}
    /\ result = Ok(0)
    /\ file = NoFile
    /\ reader = CsvReaderNew(NoFile)
    /\ yielded = <<>>

\* Dataset::load(triples, source)
Load(triples, source) ==
    /\ Alive
    /\ LET r == LoadLoop(triples, source, {}, 0)
       IN /\ Cardinality((store \cup r.quads) \ Doc(cfg)) <= MaxQuads
          /\ store' = store \cup r.quads
          /\ result' = r.out
    /\ request' = LoadRequest(triples, source)
    /\ fieldMap' = {}
    /\ UNCHANGED <<cfg, csvVars>>

\* Resolver::resolve(fields, scope)
Resolve(fields, scope) ==
    /\ Alive
    /\ request' = ResolveRequest(fields, scope)
    /\ \E ord \in ListOrders(store) :
          \E fmo \in FieldMapAll(store, fields, scope, ord) :
             /\ fieldMap' = IF fmo.st = "ok" THEN fmo.val ELSE {}
             /\ result' \in IF fmo.st = "ok"
                           THEN ResolveAfterMap(store, fields, scope, ord, fmo.val)
                           ELSE {Propagate(fmo, <<>>)}
    /\ UNCHANGED <<cfg, store, csvVars>>

Next ==
    \/ \E triples \in Batches(cfg), source \in Sources(cfg) : Load(triples, source)
    \/ \E r \in Requests(cfg) : Resolve(r.fields, r.scope)

Spec == Init /\ [][Next]_vars

\* ------------------------------------------------- the CsvReader at work

\* A CsvReader is built over one of the documents.
InitCsv ==
    /\ cfg = "same"
    /\ store = Doc(cfg)
    /\ request = NoRequest
    /\ fieldMap = {}
    /\ result = Ok(0)
    /\ file \in Files
    /\ reader = CsvReaderNew(file)
    /\ yielded = <<>>

\* A call of next() by the consumer of the iterator, which stops at None.
CsvNext ==
    /\ IF yielded = <<>> THEN TRUE ELSE yielded[Len(yielded)].kind # "none"
    /\ LET n == IteratorNext(reader)
       IN /\ reader' = n.reader
          /\ yielded' = Append(yielded, n.out)
    /\ UNCHANGED <<cfg, store, request, fieldMap, result, file>>

NextCsv == CsvNext

SpecCsv == InitCsv /\ [][NextCsv]_vars

\* ------------------------------------------------------------------ claims

\* The row quads with predicate p in the named graphs of scope.
RowQuadsOf(S, p, scope) ==
    {q \in S : /\ q.p = Iri(p) /\ q.s.k = "lit" /\ q.o.k = "lit"
               /\ q.g.k = "iri" /\ q.g.a \in scope}

\* The values of field in one record of the output, with their multiplicity.
FieldValues(bag, field) == {t \in DOMAIN bag : t.field = field}

\* C1: when the mapping quads in scope about the single requested field f are
\* exactly one quad (f, mapping:same, p) and the p row quads in scope lie in one
\* source graph, resolve returns a map whose keys are exactly the rows that
\* have a p quad, each record holding f once for each value of the row.
C1_SingleSame ==
    (request.op = "resolve" /\ Len(request.fields) = 1) =>
        LET f == request.fields[1]
            mq == {q \in store : /\ q.s = Iri(f)
                                 /\ q.g.k = "iri" /\ q.g.a \in request.scope}
        IN \A m \in mq :
              LET rows == RowQuadsOf(store, m.o.a, request.scope)
              IN (/\ mq = {m}
                  /\ m.p = Iri(MSame)
                  /\ m.o.k = "iri"
                  /\ Cardinality({q.g : q \in rows}) <= 1)
                 => /\ result.st = "ok"
                    /\ DOMAIN result.val = {LitString(q.s.a) : q \in rows}
                    /\ \A q \in rows :
                          result.val[LitString(q.s.a)] =
                              SetToBag({[field |-> f, value |-> x.o.a] :
                                           x \in {y \in rows : y.s = q.s}})

\* Scenario S1: one row "0" with species_name "Felis catus" resolves to
\* exactly { "0": [CanonicalName("Felis catus")] }.
C1_Witness ==
    /\ cfg = "same"
    /\ request.op = "resolve"
    /\ request.scope = {ModelGraph("names"), SourceGraph("a")}
    /\ result.st = "ok"
    /\ result.val = (LitString("0") :>
                       SetToBag({[field |-> Field("canonical_name"),
                                  value |-> "Felis catus"]}))

\* The operand IRIs of the entry e are resolved the way resolve_field_terms
\* wants them: each has exactly one Map in the field map, a Same.
OperandsResolved(e) ==
    \A a \in Range(e.map.iris) :
        /\ Cardinality(EntriesOf(fieldMap, a)) = 1
        /\ \A m \in MapsOf(fieldMap, a) : m.op = "Same"

\* The row quads of the scope that hold a value of operand a for one row.
OperandQuads(a, row) ==
    UNION {{q \in RowQuadsOf(store, m.iri, request.scope) : q.s.a = row} :
              m \in MapsOf(fieldMap, a)}

NonEmptyQuads(a, row) == {q \in OperandQuads(a, row) : q.o.a # ""}

\* The rows that hold a value (empty or not) of some operand of e.
OperandRows(e) ==
    {q.s.a : q \in UNION {RowQuadsOf(store, m.iri, request.scope) :
                             m \in UNION {MapsOf(fieldMap, a) : a \in Range(e.map.iris)}}}

\* The combines entries the claims C2 and C3 speak of: the only Map of a
\* requested field, operands resolved, no filter and no linked join at work.
CombinesCase(e) ==
    /\ request.op = "resolve"
    /\ e.map.op = "Combines"
    /\ e.key \in Range(request.fields)
    /\ EntriesOf(fieldMap, e.key) = {e}
    /\ OperandsResolved(e)
    /\ Conditions(fieldMap) = {}
    /\ Linked(fieldMap) = {}

\* The one value of operand a in the row, "" when it has none that is non-empty.
OperandValue(a, row) ==
    IF NonEmptyQuads(a, row) = {} THEN ""
    ELSE (CHOOSE q \in NonEmptyQuads(a, row) : TRUE).o.a

\* The text the claim asks for: the non-empty values from left to right, one
\* space between neighbours.
RECURSIVE SpaceJoined(_, _)
SpaceJoined(acc, vals) ==
    IF vals = <<>> THEN acc
    ELSE SpaceJoined(IF Head(vals) = "" THEN acc
                     ELSE IF acc = "" THEN Head(vals)
                     ELSE acc \o " " \o Head(vals),
                     Tail(vals))

ReportsAmbiguity(a, row) ==
    /\ Cardinality(NonEmptyQuads(a, row)) > 1
    /\ result.iri = a
    /\ Len(result.vals) = Cardinality(OperandQuads(a, row))
    /\ \A q \in OperandQuads(a, row) :
          Cardinality({i \in 1..Len(result.vals) : result.vals[i] = LitString(q.o.a)})
              = Cardinality({x \in OperandQuads(a, row) : x.o.a = q.o.a})

\* C3: if in one record some operand of a combines map has more than one
\* non-empty value, resolve fails with AmbiguousMapping naming such an operand
\* and the values observed for it, and returns no record map.
C3_CombinesAmbiguity ==
    \A e \in fieldMap :
        (/\ CombinesCase(e)
         /\ \E r \in OperandRows(e), a \in Range(e.map.iris) :
               Cardinality(NonEmptyQuads(a, r)) > 1)
        => /\ result.st = "err"
           /\ result.err = "AmbiguousMapping"
           /\ result.val = <<>>
           /\ \E r \in OperandRows(e), a \in Range(e.map.iris) : ReportsAmbiguity(a, r)

\* Scenario S2 with a second genus: AmbiguousMapping(genus, ["Felis", "Canis"]).
C3_Witness ==
    /\ cfg = "combines"
    /\ \E e \in fieldMap : CombinesCase(e)
    /\ result.st = "err"
    /\ result.err = "AmbiguousMapping"
    /\ result.iri = Field("genus")
    /\ Range(result.vals) = {LitString("Felis"), LitString("Canis")}

\* The RDF list that starts at node, read as a list: every node has one
\* rdf:first and one rest, and the chain ends at rdf:nil.  wf tells whether the
\* quads of graph form such a list; iris is then its elements in list order.
NotAList == [wf |-> FALSE, iris |-> <<>>]

RECURSIVE WalkList(_, _, _, _)
WalkList(S, node, graph, seen) ==
    LET quads == {q \in S : q.s = BlankNode(node) /\ q.g = Iri(graph)}
        firsts == {q \in quads : q.p = Iri(RdfFirst)}
        rests == {q \in quads : q.p = Iri(RdfRest)}
    IN IF node \in seen \/ Cardinality(firsts) # 1 \/ Cardinality(rests) # 1
          \/ quads # firsts \cup rests
       THEN NotAList
       ELSE LET f == CHOOSE q \in firsts : TRUE
                r == CHOOSE q \in rests : TRUE
                tail == IF r.o = Iri(RdfNil) THEN [wf |-> TRUE, iris |-> <<>>]
                        ELSE IF r.o.k = "bnode"
                        THEN WalkList(S, r.o.a, graph, seen \cup {node})
                        ELSE NotAList
            IN IF f.o.k = "iri" /\ tail.wf
               THEN [wf |-> TRUE, iris |-> <<f.o.a>> \o tail.iris]
               ELSE NotAList

\* C4: the operand sequence field_map decodes for a combines or hash_first
\* quad whose object is a well-formed RDF list is the list order (first of
\* node 1, first of node 2, ... up to nil), no element dropped, whatever the
\* order in which the store returned the first/rest quads of the nodes.
C4_ListOrderIndependent ==
    \A e \in fieldMap :
        (/\ e.map.op \in {"Combines", "HashFirst"}
         /\ e.q.o.k = "bnode"
         /\ WalkList(store, e.q.o.a, e.q.g.a, {}).wf)
        => e.map.iris = WalkList(store, e.q.o.a, e.q.g.a, {}).iris

\* The rows that hold a value of a requested field mapped by same.
RowsWithValues ==
    {q.s.a : q \in UNION {RowQuadsOf(store, e.map.iri, request.scope) :
                             e \in {x \in fieldMap : /\ x.key \in Range(request.fields)
                                                     /\ x.map.op = "Same"}}}

\* The values a row holds for the IRI p of a when condition: those of its
\* quads with predicate p, and those of the source predicates p is mapped to.
WhenValues(p, row) ==
    {q.o.a : q \in {x \in RowQuadsOf(store, p, request.scope) : x.s.a = row}}
    \cup {q.o.a : q \in UNION {{x \in RowQuadsOf(store, m.iri, request.scope) : x.s.a = row} :
                                  m \in {y \in MapsOf(fieldMap, p) : y.op = "Same"}}}

\* The when maps of the requested fields that resolve has decoded.
WhenEntries ==
    {e \in fieldMap : /\ request.op = "resolve"
                      /\ e.map.op = "When"
                      /\ e.key \in Range(request.fields)}

\* C5: with f mapping:when (p mapping:is v) in scope, p a source predicate of
\* the row data and f requested, resolve completes without error, its output
\* contains every row whose p values equal v and no row with a p value
\* different from v.
C5_WhenFilters ==
    \A e \in WhenEntries :
        RowQuadsOf(store, e.map.iri, request.scope) # {}
        => /\ result.st = "ok"
           /\ \A r \in RowsWithValues :
                 /\ (WhenValues(e.map.iri, r) \subseteq {e.map.cond.v})
                        => LitString(r) \in DOMAIN result.val
                 /\ (WhenValues(e.map.iri, r) \ {e.map.cond.v} # {})
                        => LitString(r) \notin DOMAIN result.val

\* C6: a row with values for a requested field and no quad for the predicate
\* of a when condition is retained in the output of resolve; a row is removed
\* only when it holds a value for that predicate that differs from the literal.
C6_WhenOpenWorld ==
    \A e \in WhenEntries :
        \A r \in RowsWithValues :
            /\ WhenValues(e.map.iri, r) = {}
                  => (result.st = "ok" /\ LitString(r) \in DOMAIN result.val)
            /\ (result.st = "ok" /\ LitString(r) \notin DOMAIN result.val)
                  => WhenValues(e.map.iri, r) \ {e.map.cond.v} # {}

\* The from maps of the requested fields that resolve has decoded.
FromEntries ==
    {e \in fieldMap : /\ request.op = "resolve"
                      /\ e.map.op = "From"
                      /\ e.key \in Range(request.fields)}

\* The records resolve can return over G and the graphs that transforms_into G
\* for the field f and the join field v, as pairs of a value of v and one of f.
LinkedPairs(f, G, v) ==
    UNION {UNION {{<<tv.value, tf.value>> :
                      tv \in FieldValues(o.val[r], v), tf \in FieldValues(o.val[r], f)} :
                     r \in DOMAIN o.val} :
              o \in {x \in ResolveAll(store, <<f, v>>, GetSourceFromModel(store, G) \cup {G}) :
                        x.st = "ok"}}

\* C7: when the canonical graph in scope declares f mapping:from (G
\* mapping:via v), an outer row has the value x for v, and a record resolved
\* over G and the graphs that transforms_into G has v = x and f = y, resolve
\* over the outer scope returns for that row a typed field f with value y.
C7_FromJoin ==
    \A e \in FromEntries :
        \A r \in RowsWithValues, pair \in LinkedPairs(e.key, e.map.graph, e.map.via) :
            pair[1] \in WhenValues(e.map.via, r)
            => /\ result.st = "ok"
               /\ LitString(r) \in DOMAIN result.val
               /\ [field |-> e.key, value |-> pair[2]] \in DOMAIN result.val[LitString(r)]

\* The content hash H of the specification (xxh3), which nothing in the source
\* computes: a deterministic function whose value differs from its argument.
Xxh3(v) == "xxh3(" \o v \o ")"

\* The hash_first entries claim C8 speaks of: the only Map of a requested
\* field, operands resolved, no filter and no linked join at work.
HashFirstCase(e) ==
    /\ request.op = "resolve"
    /\ e.map.op = "HashFirst"
    /\ e.key \in Range(request.fields)
    /\ EntriesOf(fieldMap, e.key) = {e}
    /\ OperandsResolved(e)
    /\ Conditions(fieldMap) = {}
    /\ Linked(fieldMap) = {}

\* The positions, in the decoded operand list, of the operands with a
\* non-empty value in the row.
NonEmptyOperands(e, row) ==
    {i \in 1..Len(e.map.iris) : NonEmptyQuads(e.map.iris[i], row) # {}}

\* C8: for a field mapped by hash_first with the operand list (a1 ... an) that
\* field_map decoded, the output for a record is the hash of one value of the
\* first operand, in list order, that has a non-empty value, operands that are
\* present but empty being skipped; when no operand has a non-empty value the
\* field has no output.
C8_HashFirstOutput ==
    \A e \in fieldMap :
        HashFirstCase(e)
        => /\ result.st = "ok"
           /\ \A r \in OperandRows(e) :
                 LET out == IF LitString(r) \in DOMAIN result.val
                            THEN FieldValues(result.val[LitString(r)], e.key)
                            ELSE {}
                     ne == NonEmptyOperands(e, r)
                 IN IF ne = {} THEN out = {}
                    ELSE LET i == CHOOSE x \in ne : \A y \in ne : x <= y
                         IN \E q \in OperandQuads(e.map.iris[i], r) :
                               /\ out = {[field |-> e.key, value |-> Xxh3(q.o.a)]}
                               /\ result.val[LitString(r)]
                                      [[field |-> e.key, value |-> Xxh3(q.o.a)]] = 1

\* C9: for a field f mapped by mapping:hash to the source predicate p, the
\* values resolve returns for f in a row are the hashes H(v) of the values v
\* observed for p in that row, not the raw values.
C9_HashOutput ==
    \A e \in fieldMap :
        (/\ request.op = "resolve"
         /\ e.map.op = "Hash"
         /\ e.key \in Range(request.fields)
         /\ EntriesOf(fieldMap, e.key) = {e})
        => /\ result.st = "ok"
           /\ \A q \in RowQuadsOf(store, e.map.iri, request.scope) :
                 /\ LitString(q.s.a) \in DOMAIN result.val
                 /\ {t.value : t \in FieldValues(result.val[LitString(q.s.a)], e.key)}
                        = {Xxh3(x.o.a) :
                              x \in {y \in RowQuadsOf(store, e.map.iri, request.scope) :
                                        y.s = q.s}}

\* The store without the quads whose graph is not a member of scope.
InScope(S, scope) == {q \in S : q.g.k = "iri" /\ q.g.a \in scope}

\* C10 as stated: the quads whose graph is not in scope contribute nothing,
\* for every mapping operator, from included: what resolve returned is
\* a result of the store cut to the scope, and the two stores have the same
\* results.
C10_ScopeExclusion ==
    request.op = "resolve" =>
        LET cut == ResolveAll(InScope(store, request.scope), request.fields, request.scope)
        IN /\ result \in cut
           /\ ResolveAll(store, request.fields, request.scope) = cut

\* No mapping quad in scope about a requested field is a from.
NoFromInScope ==
    \A q \in FieldMapQuads(store, request.fields, request.scope) : q.p # Iri(MFrom)

\* C10, amended: when no from mapping of a requested field lies in scope, the
\* quads whose graph is not in scope contribute nothing to resolve.
C10_ScopeExclusionNoFrom ==
    (request.op = "resolve" /\ NoFromInScope) =>
        LET cut == ResolveAll(InScope(store, request.scope), request.fields, request.scope)
        IN /\ result \in cut
           /\ ResolveAll(store, request.fields, request.scope) = cut

\* A resolve with records in its output while the store holds row quads of a
\* mapped predicate, and mapping quads of the requested field, outside scope.
C10_Witness ==
    /\ request.op = "resolve"
    /\ NoFromInScope
    /\ result.st = "ok"
    /\ DOMAIN result.val # {}
    /\ \E e \in fieldMap, q \in store \ InScope(store, request.scope) :
          q.p = Iri(e.map.iri) /\ q.s.k = "lit"
    /\ \E q \in store \ InScope(store, request.scope) :
          q.s.k = "iri" /\ q.s.a \in Range(request.fields)

\* The row quads of the scope that hold, for one row, a value of a source
\* predicate of field: the targets of its same and hash maps.
ObservedQuads(field, row) ==
    UNION {{q \in RowQuadsOf(store, m.iri, request.scope) : q.s.a = row} :
              m \in {x \in MapsOf(fieldMap, field) : x.op \in {"Same", "Hash"}}}

\* C11: for a resolve of one field f, the number of typed fields in the
\* record of a row is at most the number of Maps of f in field_map times the
\* number of values observed for f's source predicates in that row; two
\* graphs declaring f mapping:same p and one value of p give at most two.
C11_OutputSizeBound ==
    (request.op = "resolve" /\ Len(request.fields) = 1 /\ result.st = "ok") =>
        \A r \in DOMAIN result.val :
            BagCardinality(result.val[r])
                <= Cardinality(EntriesOf(fieldMap, request.fields[1]))
                       * Cardinality(ObservedQuads(request.fields[1], r.v))

\* The number of typed fields of field in one record of the output.
RECURSIVE CountOf(_, _)
CountOf(bag, ts) ==
    IF ts = {} THEN 0
    ELSE LET t == CHOOSE x \in ts : TRUE IN bag[t] + CountOf(bag, ts \ {t})

\* C12: for a requested field whose Maps are combines or hash_first maps,
\* resolve emits at most one literal per Map in every record, whatever number
\* of values the operands hold.
C12_OneLiteralPerMap ==
    (request.op = "resolve" /\ result.st = "ok") =>
        \A f \in Range(request.fields) :
            (/\ EntriesOf(fieldMap, f) # {}
             /\ \A m \in MapsOf(fieldMap, f) : m.op \in {"Combines", "HashFirst"})
            => \A r \in DOMAIN result.val :
                  CountOf(result.val[r], FieldValues(result.val[r], f))
                      <= Cardinality(EntriesOf(fieldMap, f))

\* The blank nodes the rest quads of graph lead to from the nodes of frontier.
RECURSIVE RestReach(_, _, _, _)
RestReach(S, graph, frontier, seen) ==
    LET next == {q.o.a : q \in {x \in S : /\ x.s.k = "bnode" /\ x.s.a \in frontier
                                          /\ x.p = Iri(RdfRest) /\ x.o.k = "bnode"
                                          /\ x.g = Iri(graph)}}
    IN IF next \subseteq seen THEN seen
       ELSE RestReach(S, graph, next \ seen, seen \cup next)

\* The first/rest chain that starts at node revisits a blank node.
CyclicList(S, node, graph) ==
    \E n \in RestReach(S, graph, {node}, {}) \cup {node} :
        n \in RestReach(S, graph, {n}, {})

\* The combines and hash_first quads in scope of the requested fields whose
\* operand list is cyclic.
CyclicQuads ==
    {q \in FieldMapQuads(store, request.fields, request.scope) :
        /\ q.p \in {Iri(MCombines), Iri(MHashFirst)}
        /\ q.o.k = "bnode"
        /\ CyclicList(store, q.o.a, q.g.a)}

\* C13: the walk of an operand list returns on every store, and a chain that
\* revisits a blank node instead of reaching nil makes field_map, and so
\* resolve, fail with InvalidMappingIri.
C13_CyclesRejected ==
    request.op = "resolve" =>
        /\ result.st # "overflow"
        /\ CyclicQuads # {} => (result.st = "err" /\ result.err = "InvalidMappingIri")

\* C14: a resolve of fields with a from mapping in scope ends with a result
\* or an error on every store, also when the from mappings are cyclic (a from
\* mapping in graph G that names G itself): the nesting of records calls is
\* bounded.
C14_LinkedRecursionBounded ==
    (/\ request.op = "resolve"
     /\ \E q \in FieldMapQuads(store, request.fields, request.scope) : q.p = Iri(MFrom))
    => result.st \in {"ok", "err"}

\* The combines and hash_first maps of the requested fields that resolve has
\* decoded.
ListEntries ==
    {e \in fieldMap : /\ request.op = "resolve"
                      /\ e.map.op \in {"Combines", "HashFirst"}
                      /\ e.key \in Range(request.fields)}

\* The Maps of the operand a that are not Same.
NotSameMaps(a) == {m \in MapsOf(fieldMap, a) : m.op # "Same"}

\* The positions of the decoded operand list of e whose operand has no Map in
\* field_map, or has a Map that is not Same.
Rejected(e) ==
    {i \in 1..Len(e.map.iris) :
        EntriesOf(fieldMap, e.map.iris[i]) = {} \/ NotSameMaps(e.map.iris[i]) # {}}

\* C15 as stated: if an operand of a combines or hash_first map has a Map
\* that is not Same, resolve fails with UnsupportedMapping carrying such a Map.
C15_UnsupportedOperand ==
    \A e \in ListEntries :
        (\E a \in Range(e.map.iris) : NotSameMaps(a) # {})
        => /\ result.st = "err"
           /\ result.err = "UnsupportedMapping"
           /\ \E a \in Range(e.map.iris) : result.map \in NotSameMaps(a)

\* C15, amended: the first operand, in the order of the decoded list, that has
\* no Map in field_map or a Map that is not Same decides: resolve fails with
\* IriNotFound naming it in the first case and with UnsupportedMapping
\* carrying one of its Maps that are not Same in the second, and returns no
\* records; if every operand has Maps and all are Same, the terms of the scan
\* hold every Same target.
C15_FirstRejectedOperand ==
    \A e \in ListEntries :
        IF Rejected(e) # {}
        THEN LET i == CHOOSE x \in Rejected(e) : \A y \in Rejected(e) : x <= y
                 a == e.map.iris[i]
             IN /\ result.st = "err"
                /\ result.val = <<>>
                /\ IF EntriesOf(fieldMap, a) = {}
                   THEN result.err = "IriNotFound" /\ result.iri = a
                   ELSE result.err = "UnsupportedMapping" /\ result.map \in NotSameMaps(a)
        ELSE /\ result.err \notin {"UnsupportedMapping", "IriNotFound"}
             /\ \A t \in ResolveFieldTermsAll(request.fields, fieldMap) :
                   /\ t.st = "ok"
                   /\ \A a \in Range(e.map.iris) :
                         {m.iri : m \in MapsOf(fieldMap, a)} \subseteq t.val

\* A combines whose operand specific_epithet is mapped by hash:
\* UnsupportedMapping(Hash(source:species)).
C15_Witness ==
    /\ cfg = "unsupported"
    /\ \E e \in ListEntries : e.map.iris = <<Field("genus"), Field("specific_epithet")>>
    /\ result.st = "err"
    /\ result.err = "UnsupportedMapping"
    /\ result.map = MapHash(Src("species"))

\* The six operators of the mapping language.
Operators == {MSame, MCombines, MHash, MHashFirst, MWhen, MFrom}

\* The mapping quads of the requested fields in scope that name no operator,
\* or whose embedded triple names no condition.
BadOperatorQuads ==
    {q \in FieldMapQuads(store, request.fields, request.scope) :
        \/ q.p.a \notin Operators
        \/ q.p.a = MWhen /\ q.o.k = "triple" /\ q.o.b # MIs
        \/ q.p.a = MFrom /\ q.o.k = "triple" /\ q.o.b # MVia}

\* The IRI that is rejected in a quad of BadOperatorQuads.
BadIri(q) == IF q.p.a \notin Operators THEN q.p.a ELSE q.o.b

\* C16 as stated: if a quad of a requested field in scope has an unknown
\* operator, a `when` whose embedded predicate is not mapping:is or a `from`
\* whose embedded predicate is not mapping:via, resolve fails with
\* InvalidMappingIri.
C16_UnknownOperatorRejected ==
    (request.op = "resolve" /\ BadOperatorQuads # {})
    => /\ result.st = "err"
       /\ result.err = "InvalidMappingIri"

\* C16, amended: with such a quad resolve never returns records; it fails
\* with the failure of a quad of the requested fields that does not decode,
\* which is InvalidMappingIri naming the rejected IRI of such a quad whenever
\* every other quad of the requested fields decodes.
C16_UnknownOperatorFails ==
    (request.op = "resolve" /\ BadOperatorQuads # {})
    => LET qs == FieldMapQuads(store, request.fields, request.scope)
           failing == {q \in qs : \E ord \in ListOrders(store) :
                                      MapOfQuad(q, ord).st # "ok"}
       IN /\ result.st # "ok"
          /\ result.val = <<>>
          /\ BadOperatorQuads \subseteq failing
          /\ \E q \in failing, ord \in ListOrders(store) :
                LET out == MapOfQuad(q, ord)
                IN /\ result.st = out.st
                   /\ result.err = out.err
                   /\ result.iri = out.iri
          /\ failing = BadOperatorQuads
             => /\ result.st = "err"
                /\ result.err = "InvalidMappingIri"
                /\ result.iri \in {BadIri(q) : q \in BadOperatorQuads}

\* A `when` whose embedded predicate is mapping:equals is rejected with
\* InvalidMappingIri naming it.
C16_Witness ==
    /\ cfg = "invalid"
    /\ request.op = "resolve"
    /\ request.fields = <<Field("canonical_name")>>
    /\ BadOperatorQuads # {}
    /\ result.st = "err"
    /\ result.err = "InvalidMappingIri"
    /\ result.iri = MEquals

\* The `when` quads of the requested fields in scope whose condition literal
\* has the datatype xsd:integer.
IntegerWhenQuads ==
    {q \in FieldMapQuads(store, request.fields, request.scope) :
        q.p.a = MWhen /\ q.o.k = "triple" /\ q.o.b = MIs /\ q.o.d = XsdInteger}

\* C17: a `when` condition literal of datatype xsd:integer decodes without
\* failure to Is(UInt64 n), and the resolve it belongs to ends with a result.
C17_TypedConditionLiterals ==
    (request.op = "resolve" /\ IntegerWhenQuads # {})
    => /\ result.st \in {"ok", "err"}
       /\ \A q \in IntegerWhenQuads :
             \E e \in fieldMap : e.q = q /\ e.map = MapWhen(q.o.a, LitUInt64(q.o.c))

\* The store holds the quad of the triple item of the source.
Holds(S, item, source) ==
    \E q \in S : /\ q.s = LiteralDatatype(ToString(item.idx), XsdInteger)
                 /\ q.p = Iri(Src(item.header))
                 /\ q.o.k = "lit" /\ q.o.a = item.literal.v
                 /\ q.g = Iri(SourceGraph(source))

\* C18: a load of triples whose quads the store already holds succeeds with
\* the count of the triples and leaves the set of quads unchanged, so that
\* every resolve after it has the store of before it.
C18_InsertIdempotent ==
    [][(/\ request'.op = "load"
        /\ \A i \in 1..Len(request'.triples) :
              Holds(store, request'.triples[i], request'.source))
       => /\ store' = store
          /\ result' = Ok(Len(request'.triples))]_vars

\* The same triple twice in one load: two triples counted, one quad held.
C18_Witness ==
    /\ request.op = "load"
    /\ Len(request.triples) = 2
    /\ request.triples[1] = request.triples[2]
    /\ result = Ok(2)
    /\ Cardinality({q \in store \ Doc(cfg) : q.g = Iri(SourceGraph(request.source))}) = 1
    /\ Holds(store, request.triples[1], request.source)

\* The items due for the rows of the document f from position k on, the
\* well-formed rows numbered from idx: the triples of a record in column
\* order, an error for a record in error.
RECURSIVE ItemsFrom(_, _, _)
ItemsFrom(f, k, idx) ==
    IF k > Len(f.rows) THEN <<>>
    ELSE IF ~f.rows[k].ok THEN <<SomeErr>> \o ItemsFrom(f, k + 1, idx)
    ELSE [j \in 1..Len(f.headers) |->
             SomeTriple(idx, f.headers[j], LitString(f.rows[k].fields[j]))]
         \o ItemsFrom(f, k + 1, idx + 1)

IsPrefix(s, t) == Len(s) <= Len(t) /\ \A i \in 1..Len(s) : s[i] = t[i]

\* C19: the triples of the k-th data row carry the row index k - 1, the first
\* data row the index 0: the items returned are those of the document with
\* its rows numbered from 0, then None.
C19_ZeroBasedRowIndex ==
    IsPrefix(yielded, ItemsFrom(file, 1, 0) \o <<NoTriple>>)

\* An item without its row index.
Unnumbered(item) == [item EXCEPT !.idx = 0]

\* C20: the items returned are, in this order, the triples of each well-formed
\* row in increasing column order (header j with the row's j-th value), one
\* row after the other, then None; the triples of one row carry one row index.
C20_ColumnOrder ==
    LET due == ItemsFrom(file, 1, 0) \o <<NoTriple>>
    IN /\ Len(yielded) <= Len(due)
       /\ \A i \in 1..Len(yielded) : Unnumbered(yielded[i]) = Unnumbered(due[i])
       /\ \A i, j \in 1..Len(yielded) :
             (due[i].kind = "ok" /\ due[j].kind = "ok" /\ due[i].idx = due[j].idx)
             => yielded[i].idx = yielded[j].idx

\* A document of two columns and two well-formed rows read to its end.
C20_Witness ==
    /\ file.headers = <<"a", "b">>
    /\ Len(file.rows) >= 2
    /\ file.rows[1].ok /\ file.rows[2].ok
    /\ file.rows[1].fields = <<"1", "2">>
    /\ Len(yielded) = Len(ItemsFrom(file, 1, 0)) + 1
    /\ yielded[Len(yielded)].kind = "none"
    /\ yielded[3].header = "a"

\* The number of items of the kind in a sequence of items.
KindCount(items, kind) == Cardinality({i \in 1..Len(items) : items[i].kind = kind})

\* The number of the first n records of the document that are (ok = TRUE)
\* well-formed or (ok = FALSE) in error.
RecordCount(n, ok) == Cardinality({k \in 1..n : file.rows[k].ok = ok})

\* C21: next() has returned exactly one Err item for each record in error it
\* has taken from the tokenizer; it returns None only when no record is left,
\* and by then every well-formed record has given one triple per column,
\* those after a record in error included.
C21_KeepsGoingPastErrors ==
    LET taken == Len(file.rows) - Len(reader.records)
    IN /\ KindCount(yielded, "err") = RecordCount(taken, FALSE)
       /\ KindCount(yielded, "none") > 0
          => /\ reader.records = <<>>
             /\ KindCount(yielded, "ok") = Len(file.headers) * RecordCount(Len(file.rows), TRUE)

\* A record in error followed by a well-formed record, read to the end: one
\* Err item, the two triples of the second record, None.
C21_Witness ==
    /\ file.headers = <<"a", "b">>
    /\ Len(file.rows) = 2
    /\ ~file.rows[1].ok
    /\ file.rows[2].ok
    /\ Len(yielded) = 4
    /\ yielded[1].kind = "err"
    /\ yielded[2].kind = "ok" /\ yielded[3].kind = "ok"
    /\ yielded[4].kind = "none"

\* C22: over the empty document and over a document of a header row only,
\* the first call of next() returns None.
C22_NoRecordsNoItems ==
    (file.rows = <<>> /\ yielded # <<>>) => yielded = <<NoTriple>>

\* A document of the header row a,b only, after the first call of next().
C22_Witness ==
    /\ file = CsvFile(<<"a", "b">>, <<>>)
    /\ yielded = <<NoTriple>>

\* The row quads of the store: the quads load has inserted.
RowQuads == store \ Doc(cfg)

\* C23: load inserts no quad for a triple whose value is the empty string.
C23_NoQuadForEmptyValue ==
    \A q \in RowQuads : q.o.k = "lit" => q.o.a # ""

\* C24: the number load returns is the number of quads it has added to the
\* store.
C24_CountOfQuadsInserted ==
    [][(request'.op = "load" /\ result'.st = "ok")
       => Cardinality(store') = Cardinality(store) + result'.val]_vars

\* C25: a load that returns an error leaves the store as it was before the
\* call.
C25_AllOrNothing ==
    [][(request'.op = "load" /\ result'.st = "err") => store' = store]_vars

\* C26: a load whose iterator yields an Err item returns an Err result.
C26_ErrItemReturned ==
    (request.op = "load" /\ \E i \in 1..Len(request.triples) : ~request.triples[i].ok)
    => result.st = "err"

\* The predicate terms resolve_field_terms returns for the FieldMap the last
\* resolve built, when it returns any.
ScanTerms ==
    UNION {t.val : t \in {x \in ResolveFieldTermsAll(request.fields, fieldMap) :
                             x.st = "ok"}}

\* C27: every predicate term of the data scan is a key of reverse_map, and no
\* resolve fails with IriNotFound for such a term.
C27_TermsAreReverseKeys ==
    (request.op = "resolve" /\ fieldMap # {})
    => /\ \A p \in ScanTerms : ReverseKeys(fieldMap, p) # {}
       /\ ~(result.st = "err" /\ result.err = "IriNotFound" /\ result.iri \in ScanTerms)

\* C28: with a linked join at work, every value the scan has found for a row
\* under a field mapped by same is still among the values resolve returns for
\* that row and field.
C28_LinkedMergeExtends ==
    (FromEntries # {} /\ result.st = "ok")
    => \A r \in DOMAIN result.val, f \in Range(request.fields) :
          \A m \in {x \in MapsOf(fieldMap, f) : x.op = "Same"} :
             \A q \in {x \in RowQuadsOf(store, m.iri, request.scope) : LitString(x.s.a) = r} :
                [field |-> f, value |-> q.o.a] \in DOMAIN result.val[r]

\* C29: when every Map of the requested fields is same, the values of a
\* record resolve returns are values of one row of one source graph of the
\* scope.
C29_RecordsScopedBySource ==
    (/\ request.op = "resolve"
     /\ result.st = "ok"
     /\ \A e \in fieldMap : e.map.op = "Same")
    => \A r \in DOMAIN result.val :
          \E g \in request.scope :
             \A tf \in DOMAIN result.val[r] :
                \E m \in MapsOf(fieldMap, tf.field) :
                   \E q \in RowQuadsOf(store, m.iri, {g}) :
                      LitString(q.s.a) = r /\ q.o.a = tf.value

\* The store without the quads of the default graph.
NamedQuads(S) == {q \in S : q.g # DefaultGraph}

====
